---------------------------- MODULE Spec2Model ----------------------------
(***************************************************************************)
(* DORA-Metrics (src/main.go): a webhook server that, on every push or     *)
(* workflow-run event, queries the upstream provider, reduces the answers  *)
(* to four delivery indicators and two counts, and overwrites six          *)
(* Prometheus gauges labelled by branch.                                   *)
(*                                                                         *)
(* Time is counted in whole hours relative to the moment of the call       *)
(* (time.Now() = 0, the past is negative).  A float64 is modelled by the   *)
(* exact rational it approximates, a reduced pair <<numerator,             *)
(* denominator>>; float rounding is not modelled.                          *)
(***************************************************************************)
EXTENDS Integers, Sequences, FiniteSets, TLC

(***************************************************************************)
(* Bounds of the model.                                                    *)
(***************************************************************************)
NumHandlers == 2      \* webhook requests served (one goroutine each)
MaxRuns == 2          \* workflow runs in the provider's history
MaxIssues == 2        \* incident issues in the provider's history

(***************************************************************************)
(* Program constants.                                                      *)
(***************************************************************************)
WindowDays == 30          \* AddDate(0, 0, -30) and the divisor "/ 30"
PerPage == 100            \* ListOptions{PerPage: 100}: first page only
ZeroTime == -17750000     \* time.Time{} (year 1), what Get*At() gives for nil
MaxDuration == 2562047    \* Time.Sub saturates at +-2^63 ns, in whole hours
StatusOK == 200
StatusBadRequest == 400
StatusInternalServerError == 500

Nil == "nil"
NilTime == <<>>           \* a nil *Timestamp / *time.Time; <<t>> points to t
Unset == <<>>             \* a gauge child no WithLabelValues has created yet

Branches == {"main", "dev"}
Handlers == 1..NumHandlers

(***************************************************************************)
(* float64 as exact rationals.                                             *)
(***************************************************************************)
Abs(n) == IF n < 0 THEN -n ELSE n

RECURSIVE GCD(_, _)
GCD(a, b) == IF b = 0 THEN a ELSE GCD(b, a % b)

\* float64(n) / float64(d), d > 0
Div(n, d) ==
    LET g == GCD(Abs(n), d)
    IN  IF n < 0 THEN <<-((-n) \div g), d \div g>> ELSE <<n \div g, d \div g>>

\* float64(n)
Float(n) == <<n, 1>>

Zero == Float(0)

(***************************************************************************)
(* time.Time                                                               *)
(***************************************************************************)
\* (*Timestamp).GetTime / Issue.GetClosedAt / Issue.GetCreatedAt: the zero
\* time for a nil pointer
GetTime(p) == IF p = NilTime THEN ZeroTime ELSE p[1]

\* time.Now().AddDate(0, 0, -30)
thirtyDaysAgo == 0 - WindowDays * 24

\* t.After(u)
After(t, u) == t > u

\* t.Sub(u), saturating, in hours
Sub(t, u) ==
    LET d == t - u
    IN  IF d > MaxDuration THEN MaxDuration
        ELSE IF d < -MaxDuration THEN -MaxDuration
        ELSE d

(***************************************************************************)
(* The upstream provider.  A world is what the provider holds and whether  *)
(* each of the four queries of one computation fails.                      *)
(***************************************************************************)
Queries == {"frequency", "leadTime", "restoreTime", "failureRate"}

Conclusions == {"success", "failure", "cancelled"}

\* github.WorkflowRun, the fields the calculators read
WorkflowRun ==
    [CreatedAt : {NilTime, <<-960>>, <<-240>>}, UpdatedAt : {NilTime, <<-120>>},
     Conclusion : Conclusions, HeadBranch : {"main"}]
    \cup
    [CreatedAt : {<<-240>>}, UpdatedAt : {<<-230>>},
     Conclusion : {"success", "failure"}, HeadBranch : Branches]

\* github.Issue of a closed issue labelled "incident": Body is the set of
\* branch names that occur in the text of the issue
Issue ==
    {i \in [CreatedAt : {NilTime, <<-960>>, <<-240>>},
            ClosedAt : {NilTime, <<-900>>, <<-120>>},
            UpdatedAt : {-900, -48}, Body : {{"main"}, {"dev"}}] :
        /\ (i.CreatedAt # NilTime => i.CreatedAt[1] <= i.UpdatedAt)
        /\ (i.ClosedAt # NilTime => i.ClosedAt[1] <= i.UpdatedAt)
        /\ (i.CreatedAt # NilTime /\ i.ClosedAt # NilTime
                => i.CreatedAt[1] <= i.ClosedAt[1])}

SeqsUpTo(S, n) == UNION {[1..k -> S] : k \in 0..n}

NoErr == [q \in Queries |-> FALSE]

FirstPage(s) == IF Len(s) <= PerPage THEN s ELSE SubSeq(s, 1, PerPage)

\* client.Actions.ListRepositoryWorkflowRuns with Branch and Status options
ListRepositoryWorkflowRuns(w, q, b, st) ==
    LET Match(r) == r.HeadBranch = b /\ (st = "" \/ r.Conclusion = st)
    IN  [err |-> w.err[q], WorkflowRuns |-> FirstPage(SelectSeq(w.runs, Match))]

\* client.Issues.ListByRepo with State "closed", Labels {"incident"} and
\* Since: the provider's Since selects on the time of the last update
ListByRepo(w, q, since) ==
    LET Match(i) == i.UpdatedAt >= since
    IN  [err |-> w.err[q], issues |-> FirstPage(SelectSeq(w.issues, Match))]

(***************************************************************************)
(* The four calculators.                                                   *)
(***************************************************************************)
RECURSIVE CountRunsOnlyFailure(_, _, _)
\* CountRuns with the failed count of calculateChangeFailureRate: a run
\* that is neither a success nor a failure is counted nowhere
CountRunsOnlyFailure(runs, i, acc) ==
    IF i > Len(runs) THEN acc
    ELSE LET run == runs[i]
         IN  IF After(GetTime(run.CreatedAt), thirtyDaysAgo)
             THEN IF run.Conclusion = "success"
                  THEN CountRunsOnlyFailure(runs, i + 1, <<acc[1] + 1, acc[2]>>)
                  ELSE IF run.Conclusion = "failure"
                  THEN CountRunsOnlyFailure(runs, i + 1, <<acc[1], acc[2] + 1>>)
                  ELSE CountRunsOnlyFailure(runs, i + 1, acc)
             ELSE CountRunsOnlyFailure(runs, i + 1, acc)

RECURSIVE CountRuns(_, _, _)
\* the loop of calculateDeploymentFrequency: <<successful, failed>>
CountRuns(runs, i, acc) ==
    IF i > Len(runs) THEN acc
    ELSE LET run == runs[i]
         IN  IF After(GetTime(run.CreatedAt), thirtyDaysAgo)
             THEN IF run.Conclusion = "success"
                  THEN CountRuns(runs, i + 1, <<acc[1] + 1, acc[2]>>)
                  ELSE CountRuns(runs, i + 1, <<acc[1], acc[2] + 1>>)
             ELSE CountRuns(runs, i + 1, acc)

calculateDeploymentFrequency(w, b) ==
    LET resp == ListRepositoryWorkflowRuns(w, "frequency", b, "")
        c == CountRuns(resp.WorkflowRuns, 1, <<0, 0>>)
    IN  IF resp.err THEN <<Zero, 0, 0>>
        ELSE <<Div(c[1] + c[2], WindowDays), c[1], c[2]>>

RECURSIVE SumLeadTime(_, _, _)
\* the loop of calculateLeadTimeForChanges: <<totalLeadTime, count>>
SumLeadTime(runs, i, acc) ==
    IF i > Len(runs) THEN acc
    ELSE LET run == runs[i]
         IN  IF /\ run.CreatedAt # NilTime
                /\ run.UpdatedAt # NilTime
                /\ After(run.CreatedAt[1], thirtyDaysAgo)
             THEN SumLeadTime(runs, i + 1,
                     <<acc[1] + 60 * Sub(run.UpdatedAt[1], run.CreatedAt[1]),
                       acc[2] + 1>>)
             ELSE SumLeadTime(runs, i + 1, acc)

calculateLeadTimeForChanges(w, b) ==
    LET resp == ListRepositoryWorkflowRuns(w, "leadTime", b, "success")
        s == SumLeadTime(resp.WorkflowRuns, 1, <<0, 0>>)
    IN  IF resp.err THEN Zero
        ELSE IF s[2] = 0 THEN Zero
        ELSE Div(s[1], s[2])

RECURSIVE SumRestoreTime(_, _, _, _)
\* the loop of calculateTimeToRestoreService: <<totalRestoreTime, incidentCount>>
SumRestoreTime(issues, b, i, acc) ==
    IF i > Len(issues) THEN acc
    ELSE LET issue == issues[i]
         IN  IF b \in issue.Body
             THEN SumRestoreTime(issues, b, i + 1,
                     <<acc[1] + Sub(GetTime(issue.ClosedAt), GetTime(issue.CreatedAt)),
                       acc[2] + 1>>)
             ELSE SumRestoreTime(issues, b, i + 1, acc)

calculateTimeToRestoreService(w, b) ==
    LET resp == ListByRepo(w, "restoreTime", thirtyDaysAgo)
        s == SumRestoreTime(resp.issues, b, 1, <<0, 0>>)
    IN  IF resp.err THEN Zero
        ELSE IF s[2] = 0 THEN Zero
        ELSE Div(s[1], s[2])

RECURSIVE CountFailuresNotSuccess(_, _, _)
\* CountFailures with the failed count of calculateDeploymentFrequency:
\* every run that is not a success counts as failed
CountFailuresNotSuccess(runs, i, acc) ==
    IF i > Len(runs) THEN acc
    ELSE LET run == runs[i]
         IN  IF After(GetTime(run.CreatedAt), thirtyDaysAgo)
             THEN IF run.Conclusion # "success"
                  THEN CountFailuresNotSuccess(runs, i + 1, <<acc[1] + 1, acc[2] + 1>>)
                  ELSE CountFailuresNotSuccess(runs, i + 1, <<acc[1] + 1, acc[2]>>)
             ELSE CountFailuresNotSuccess(runs, i + 1, acc)

RECURSIVE CountFailures(_, _, _)
\* the loop of calculateChangeFailureRate: <<totalDeployments, failedDeployments>>
CountFailures(runs, i, acc) ==
    IF i > Len(runs) THEN acc
    ELSE LET run == runs[i]
         IN  IF After(GetTime(run.CreatedAt), thirtyDaysAgo)
             THEN IF run.Conclusion = "failure"
                  THEN CountFailures(runs, i + 1, <<acc[1] + 1, acc[2] + 1>>)
                  ELSE CountFailures(runs, i + 1, <<acc[1] + 1, acc[2]>>)
             ELSE CountFailures(runs, i + 1, acc)

calculateChangeFailureRate(w, b) ==
    LET resp == ListRepositoryWorkflowRuns(w, "failureRate", b, "")
        c == CountFailures(resp.WorkflowRuns, 1, <<0, 0>>)
    IN  IF resp.err THEN Zero
        ELSE IF c[1] = 0 THEN Zero
        ELSE Div(c[2], c[1])

\* calculateDoraMetrics that gives up, with an error, when a query failed
calculateDoraMetricsFailFast(w, b) ==
    LET freq == calculateDeploymentFrequency(w, b)
    IN  [metrics |->
            [DeploymentFrequency   |-> freq[1],
             LeadTimeForChanges    |-> calculateLeadTimeForChanges(w, b),
             TimeToRestoreService  |-> calculateTimeToRestoreService(w, b),
             ChangeFailureRate     |-> calculateChangeFailureRate(w, b),
             SuccessfulDeployments |-> freq[2],
             FailedDeployments     |-> freq[3],
             Branch                |-> b],
         err |-> IF \E q \in Queries : w.err[q] THEN "upstream error" ELSE Nil]

\* calculateDoraMetrics: the pair (metrics, err)
calculateDoraMetrics(w, b) ==
    LET freq == calculateDeploymentFrequency(w, b)
    IN  [metrics |->
            [DeploymentFrequency   |-> freq[1],
             LeadTimeForChanges    |-> calculateLeadTimeForChanges(w, b),
             TimeToRestoreService  |-> calculateTimeToRestoreService(w, b),
             ChangeFailureRate     |-> calculateChangeFailureRate(w, b),
             SuccessfulDeployments |-> freq[2],
             FailedDeployments     |-> freq[3],
             Branch                |-> b],
         err |-> Nil]


(***************************************************************************)
(* The histories the provider may hold.                                    *)
(***************************************************************************)
\* histories of the single-request specification: many runs or many
\* incidents without query errors, or every combination of query errors
\* over a few histories in which every indicator is non-zero
ErrRun ==
    {[CreatedAt |-> <<-240>>, UpdatedAt |-> <<-120>>, Conclusion |-> c,
      HeadBranch |-> "main"] :
        c \in {"success", "failure"}}

ErrIssue ==
    {[CreatedAt |-> <<-240>>, ClosedAt |-> <<-120>>, UpdatedAt |-> -48,
      Body |-> {"main"}]}

CalcWorlds ==
    [runs : SeqsUpTo(WorkflowRun, MaxRuns), issues : {<<>>}, err : {NoErr}]
    \cup [runs : {<<>>}, issues : SeqsUpTo(Issue, MaxIssues), err : {NoErr}]
    \cup [runs : SeqsUpTo(ErrRun, MaxRuns), issues : SeqsUpTo(ErrIssue, 1),
          err : [Queries -> BOOLEAN]]

\* histories of the server specifications: no run at all, one successful
\* run on main, one failed run on dev
ServerRun ==
    {[CreatedAt |-> <<-240>>, UpdatedAt |-> <<-120>>, Conclusion |-> "success",
      HeadBranch |-> "main"],
     [CreatedAt |-> <<-240>>, UpdatedAt |-> <<-230>>, Conclusion |-> "failure",
      HeadBranch |-> "dev"]}

ServerWorlds ==
    [runs : {<<>>} \cup {<<r>> : r \in ServerRun}, issues : {<<>>}, err : {NoErr}]

(***************************************************************************)
(* The metrics store: six GaugeVecs labelled by branch.                    *)
(***************************************************************************)
\* the order of the Set calls of updatePrometheusMetrics
GaugeOrder ==
    <<"deploymentFrequency", "leadTimeForChanges", "timeToRestoreService",
      "changeFailureRate", "successfulDeployments", "failedDeployments">>

Gauges == {GaugeOrder[i] : i \in 1..Len(GaugeOrder)}

\* the value updatePrometheusMetrics passes to the Set of gauge k
GaugeValue(m, k) ==
    CASE k = "deploymentFrequency"   -> m.DeploymentFrequency
      [] k = "leadTimeForChanges"    -> m.LeadTimeForChanges
      [] k = "timeToRestoreService"  -> m.TimeToRestoreService
      [] k = "changeFailureRate"     -> m.ChangeFailureRate
      [] k = "successfulDeployments" -> Float(m.SuccessfulDeployments)
      [] k = "failedDeployments"     -> Float(m.FailedDeployments)

\* a label that is not the snapshot's branch
GaugeLabelMain(m) == "main"

\* the label updatePrometheusMetrics passes to WithLabelValues
GaugeLabel(m) == m.Branch

\* a Set that only takes effect when it creates the child
GaugeSetOnce(g, k, label, v) ==
    IF g[k][label] = Unset THEN [g EXCEPT ![k][label] = v] ELSE g

\* Add in the place of Set: the new value is combined with the old one
GaugeSetAdd(g, k, label, v) ==
    IF g[k][label] = Unset THEN [g EXCEPT ![k][label] = v]
    ELSE [g EXCEPT ![k][label] = Div(@[1] * v[2] + v[1] * @[2], @[2] * v[2])]

\* vec.WithLabelValues(label).Set(v): the child is created on first use and
\* its value is replaced in one atomic store
GaugeSet(g, k, label, v) == [g EXCEPT ![k][label] = v]

(***************************************************************************)
(* The webhook handler.                                                    *)
(***************************************************************************)
EventTypes == {"push", "workflow_run", "ping", "check_run", "check_suite", "other"}

\* a request: whether it passes ReadAll, ValidateSignature and ParseWebHook,
\* the event type, and the branch the event names (a push names it in its ref)
Requests == [valid : BOOLEAN, type : EventTypes, name : Branches]

RefPrefix == "refs/heads/"

\* e.GetRef() of a push to a branch
GetRef(req) == <<RefPrefix, req.name>>

\* strings.TrimPrefix(ref, "refs/heads/")
getBranchFromRef(ref) == IF ref[1] = RefPrefix THEN ref[2] ELSE ref

\* a switch that also computes on a check run, which names a branch too
DispatchCheckRun(type) ==
    CASE type = "push"         -> "update"
      [] type = "workflow_run" -> "update"
      [] type = "check_run"    -> "update"
      [] type = "ping"         -> "pong"
      [] OTHER                 -> "log"

\* the switch on the event's type: what the handler does with it
Dispatch(type) ==
    CASE type = "push"         -> "update"
      [] type = "workflow_run" -> "update"
      [] type = "ping"         -> "pong"
      [] OTHER                 -> "log"

\* the branch handed to handleMetricsUpdate
EventBranch(req) ==
    IF req.type = "push" THEN getBranchFromRef(GetRef(req)) ELSE req.name

VARIABLES
    provider,    \* the histories the upstream may answer a computation from
    pc,          \* pc[h]: where request h is
    kind,        \* kind[h]: the type of the event of request h
    branch,      \* branch[h]: the branch handleMetricsUpdate was called with
    metrics,     \* metrics[h]: the *DoraMetrics of request h
    written,     \* written[h]: how many Set calls request h has made
    status,      \* status[h]: the HTTP status of the response
    body,        \* body[h]: the body of the response
    gauges       \* gauges[k][b]: the value of GaugeVec k under label b

vars == <<provider, pc, kind, branch, metrics, written, status, body, gauges>>

\* what a scrape of /metrics shows for branch b
Export(b) == [k \in Gauges |-> gauges[k][b]]

InitServer ==
    /\ pc = [h \in Handlers |-> "idle"]
    /\ kind = [h \in Handlers |-> Nil]
    /\ branch = [h \in Handlers |-> Nil]
    /\ metrics = [h \in Handlers |-> Nil]
    /\ written = [h \in Handlers |-> 0]
    /\ status = [h \in Handlers |-> 0]
    /\ body = [h \in Handlers |-> Nil]
    /\ gauges = [k \in Gauges |-> [b \in Branches |-> Unset]]

\* the upstream history changes from one computation to the next
Init == provider = ServerWorlds /\ InitServer

\* one history, the same for all that is computed
InitCalc == (\E w \in CalcWorlds : provider = {w}) /\ InitServer

\* the /webhook handler up to and including its switch
Webhook(h) ==
    /\ pc[h] = "idle"
    /\ \E req \in Requests :
          IF ~req.valid
          THEN /\ status' = [status EXCEPT ![h] = StatusBadRequest]
               /\ body' = [body EXCEPT ![h] = "Invalid payload"]
               /\ kind' = [kind EXCEPT ![h] = "invalid"]
               /\ pc' = [pc EXCEPT ![h] = "done"]
               /\ UNCHANGED branch
          ELSE /\ kind' = [kind EXCEPT ![h] = req.type]
               /\ CASE Dispatch(req.type) = "update" ->
                         /\ branch' = [branch EXCEPT ![h] = EventBranch(req)]
                         /\ pc' = [pc EXCEPT ![h] = "calculate"]
                         /\ UNCHANGED <<status, body>>
                    [] Dispatch(req.type) = "pong" ->
                         /\ status' = [status EXCEPT ![h] = StatusOK]
                         /\ body' = [body EXCEPT ![h] = "Pong!"]
                         /\ pc' = [pc EXCEPT ![h] = "done"]
                         /\ UNCHANGED branch
                    [] OTHER ->
                         /\ status' = [status EXCEPT ![h] = StatusOK]
                         /\ pc' = [pc EXCEPT ![h] = "done"]
                         /\ UNCHANGED <<branch, body>>
    /\ UNCHANGED <<provider, metrics, written, gauges>>

\* handleMetricsUpdate up to the call of updatePrometheusMetrics
Calculate(h) ==
    /\ pc[h] = "calculate"
    /\ \E w \in provider :
        LET r == calculateDoraMetrics(w, branch[h])
        IN IF r.err # Nil
           THEN /\ status' = [status EXCEPT ![h] = StatusInternalServerError]
                /\ body' = [body EXCEPT ![h] = "Error calculating DORA metrics"]
                /\ pc' = [pc EXCEPT ![h] = "done"]
                /\ UNCHANGED metrics
           ELSE /\ metrics' = [metrics EXCEPT ![h] = r.metrics]
                /\ pc' = [pc EXCEPT ![h] = "update"]
                /\ UNCHANGED <<status, body>>
    /\ UNCHANGED <<provider, kind, branch, written, gauges>>

\* updatePrometheusMetrics, one Set call at a time
Update(h) ==
    /\ pc[h] = "update"
    /\ LET k == GaugeOrder[written[h] + 1]
           m == metrics[h]
       IN  gauges' = GaugeSet(gauges, k, GaugeLabel(m), GaugeValue(m, k))
    /\ written' = [written EXCEPT ![h] = @ + 1]
    /\ pc' = [pc EXCEPT ![h] = IF written[h] + 1 = Len(GaugeOrder) THEN "respond" ELSE "update"]
    /\ UNCHANGED <<provider, kind, branch, metrics, status, body>>

\* handleMetricsUpdate after updatePrometheusMetrics: the JSON response
Respond(h) ==
    /\ pc[h] = "respond"
    /\ status' = [status EXCEPT ![h] = StatusOK]
    /\ body' = [body EXCEPT ![h] = metrics[h]]
    /\ pc' = [pc EXCEPT ![h] = "done"]
    /\ UNCHANGED <<provider, kind, branch, metrics, written, gauges>>

Step(h) == Webhook(h) \/ Calculate(h) \/ Update(h) \/ Respond(h)

\* net/http serves every request in a goroutine of its own
Next == \E h \in Handlers : Step(h)

Spec == Init /\ [][Next]_vars

\* the requests arrive one after the other: request h is served once every
\* request before it has been answered
Turn(h) == \A g \in Handlers : (g < h => pc[g] = "done") /\ (g > h => pc[g] = "idle")

NextSeq == \E h \in Handlers : Turn(h) /\ Step(h)

SpecSeq == Init /\ [][NextSeq]_vars

\* one request served against one history
NextCalc == Step(1)

SpecCalc == InitCalc /\ [][NextCalc]_vars


(***************************************************************************)
(* Vocabulary of the properties.                                           *)
(***************************************************************************)
MetricEvents == {"push", "workflow_run"}

\* request h holds a snapshot: calculateDoraMetrics has returned it
HasMetrics(h) == pc[h] \in {"update", "respond"} \/ (pc[h] = "done" /\ written[h] > 0)

\* request h has made all its Set calls
Recorded(h) == written[h] = Len(GaugeOrder)

\* the six values of a snapshot, by metric name
SixValues(m) ==
    [deploymentFrequency   |-> m.DeploymentFrequency,
     leadTimeForChanges    |-> m.LeadTimeForChanges,
     timeToRestoreService  |-> m.TimeToRestoreService,
     changeFailureRate     |-> m.ChangeFailureRate,
     successfulDeployments |-> <<m.SuccessfulDeployments, 1>>,
     failedDeployments     |-> <<m.FailedDeployments, 1>>]

\* the place of gauge k in the order of the Set calls
Place(k) == CHOOSE i \in 1..Len(GaugeOrder) : GaugeOrder[i] = k

RecordedFor(b) == {h \in Handlers : Recorded(h) /\ branch[h] = b}

Recording(b) == {h \in Handlers : pc[h] \in {"calculate", "update"} /\ branch[h] = b}

Latest(S) == CHOOSE h \in S : \A g \in S : g <= h

\* the history of the single-request specification
TheWorld == CHOOSE w \in provider : TRUE

\* created within the trailing 30 days
InWindow(p) == p # NilTime /\ p[1] > -(30 * 24)

\* the runs of history w the provider returns for branch b that were
\* created within the window
WindowRuns(w, b) ==
    {i \in 1..Len(w.runs) : w.runs[i].HeadBranch = b /\ InWindow(w.runs[i].CreatedAt)}

WithConclusion(w, Q, c) == {i \in Q : w.runs[i].Conclusion = c}

(***************************************************************************)
(* C1.  Served one after the other, the record calls leave for every       *)
(* branch exactly the six values of the last snapshot recorded for it:     *)
(* whenever no record for branch b is under way and at least one has been  *)
(* made, a scrape shows for b the six values of the latest of them.        *)
(***************************************************************************)
C1_LastSnapshotExported ==
    \A b \in Branches :
        (RecordedFor(b) # {} /\ Recording(b) = {})
            => Export(b) = SixValues(metrics[Latest(RecordedFor(b))])

\* two records for the same branch with different snapshots, both complete
C1_Witness ==
    \E b \in Branches : \E g, h \in RecordedFor(b) :
        /\ g < h
        /\ pc[g] = "done" /\ pc[h] = "done"
        /\ metrics[g] # metrics[h]
        /\ Export(b) = SixValues(metrics[h])

(***************************************************************************)
(* C2.  Under every interleaving, a gauge labelled b only ever holds a     *)
(* value of a snapshot whose branch is b, and a Set call of a record for   *)
(* one branch leaves the six gauges of every other branch unchanged.       *)
(***************************************************************************)
C2_NoCrossContamination ==
    /\ [](\A b \in Branches : \A k \in Gauges :
            gauges[k][b] # Unset =>
                \E h \in Handlers :
                    /\ HasMetrics(h)
                    /\ metrics[h].Branch = b
                    /\ gauges[k][b] = SixValues(metrics[h])[k])
    /\ [][\A h \in Handlers : \A b \in Branches :
            (written'[h] # written[h] /\ branch[h] # b)
                => \A k \in Gauges : gauges'[k][b] = gauges[k][b]]_vars

\* records for main and for dev under way at the same time, each with its
\* own lead time in its own gauge
C2_Witness ==
    \E g, h \in Handlers :
        /\ pc[g] = "update" /\ pc[h] = "update"
        /\ branch[g] = "main" /\ branch[h] = "dev"
        /\ written[g] >= 4 /\ written[h] >= 4
        /\ gauges["leadTimeForChanges"]["main"] # gauges["leadTimeForChanges"]["dev"]
        /\ gauges["changeFailureRate"]["main"] # gauges["changeFailureRate"]["dev"]

(***************************************************************************)
(* C3.  Once all concurrent record calls have completed, the six gauges of *)
(* a branch all come from one single snapshot.                             *)
(***************************************************************************)
C3_OneSnapshotAfterCompletion ==
    \A b \in Branches :
        ((\A h \in Handlers : pc[h] \in {"idle", "done"}) /\ RecordedFor(b) # {})
            => \E h \in RecordedFor(b) : Export(b) = SixValues(metrics[h])

(***************************************************************************)
(* C4.  A single gauge write is atomic: a written gauge holds exactly the  *)
(* value one record call for that branch wrote to that metric; every Set   *)
(* call leaves in its gauge the value it wrote and leaves every other      *)
(* gauge alone, and no other step changes a gauge, so a gauge holds the    *)
(* value of the last write to it.                                          *)
(***************************************************************************)
C4_AtomicGaugeWrite ==
    /\ [](\A b \in Branches : \A k \in Gauges :
            gauges[k][b] # Unset =>
                \E h \in Handlers :
                    /\ HasMetrics(h)
                    /\ branch[h] = b
                    /\ written[h] >= Place(k)
                    /\ gauges[k][b] = SixValues(metrics[h])[k])
    /\ [][\/ /\ gauges' = gauges
             /\ written' = written
          \/ \E h \in Handlers :
                /\ pc[h] = "update"
                /\ written' = [written EXCEPT ![h] = @ + 1]
                /\ LET k == GaugeOrder[written[h] + 1]
                   IN  /\ gauges'[k][branch[h]] = SixValues(metrics[h])[k]
                       /\ \A j \in Gauges : \A b \in Branches :
                            (j # k \/ b # branch[h]) => gauges'[j][b] = gauges[j][b]]_vars

\* two records for one branch under way at once, with different values for
\* a gauge both have written
C4_Witness ==
    \E g, h \in Handlers :
        /\ g # h
        /\ pc[g] = "update" /\ pc[h] = "update"
        /\ branch[g] = branch[h]
        /\ written[g] >= 1 /\ written[h] >= 1
        /\ metrics[g].DeploymentFrequency # metrics[h].DeploymentFrequency
        /\ gauges["deploymentFrequency"][branch[g]] = metrics[g].DeploymentFrequency

(***************************************************************************)
(* C5.  calculateDoraMetrics never fails as a unit: whichever of the four  *)
(* queries fail, the snapshot holds zero for each calculator whose query   *)
(* failed and, for each other calculator, the value it computes when no    *)
(* query fails; the snapshot is written to the store and returned with     *)
(* status 200, and the error response is never given.                      *)
(***************************************************************************)
Degraded(w, b) ==
    LET n == calculateDoraMetrics([w EXCEPT !.err = NoErr], b).metrics
    IN  [DeploymentFrequency   |-> IF w.err["frequency"] THEN Zero ELSE n.DeploymentFrequency,
         LeadTimeForChanges    |-> IF w.err["leadTime"] THEN Zero ELSE n.LeadTimeForChanges,
         TimeToRestoreService  |-> IF w.err["restoreTime"] THEN Zero ELSE n.TimeToRestoreService,
         ChangeFailureRate     |-> IF w.err["failureRate"] THEN Zero ELSE n.ChangeFailureRate,
         SuccessfulDeployments |-> IF w.err["frequency"] THEN 0 ELSE n.SuccessfulDeployments,
         FailedDeployments     |-> IF w.err["frequency"] THEN 0 ELSE n.FailedDeployments,
         Branch                |-> b]

C5_NeverFailsAsAUnit ==
    /\ status[1] # StatusInternalServerError
    /\ (kind[1] \in MetricEvents /\ pc[1] # "calculate") => HasMetrics(1)
    /\ HasMetrics(1) => metrics[1] = Degraded(TheWorld, branch[1])
    /\ (HasMetrics(1) /\ pc[1] = "done") =>
            /\ status[1] = StatusOK
            /\ body[1] = metrics[1]
            /\ Export(branch[1]) = SixValues(metrics[1])

\* the frequency and failure-rate queries failed, the other two did not
C5_Witness ==
    /\ HasMetrics(1) /\ pc[1] = "done"
    /\ TheWorld.err["frequency"] /\ TheWorld.err["failureRate"]
    /\ ~TheWorld.err["leadTime"] /\ ~TheWorld.err["restoreTime"]
    /\ metrics[1].DeploymentFrequency = Zero
    /\ metrics[1].ChangeFailureRate = Zero
    /\ metrics[1].LeadTimeForChanges # Zero
    /\ metrics[1].TimeToRestoreService # Zero
    /\ Len(TheWorld.runs) = 2

(***************************************************************************)
(* C6.  An event that is neither a push nor a workflow run (a ping, a      *)
(* check run, a check suite, any other type) starts no computation and     *)
(* makes no Set call, and a gauge changes only in a Set call of a request  *)
(* whose event is a push or a workflow run.                                *)
(***************************************************************************)
C6_OnlyPushAndWorkflowRunMutate ==
    /\ [](\A h \in Handlers :
            (kind[h] # Nil /\ kind[h] \notin MetricEvents)
                => pc[h] = "done" /\ written[h] = 0 /\ branch[h] = Nil)
    /\ [][gauges' # gauges =>
            \E h \in Handlers :
                /\ kind[h] \in MetricEvents
                /\ written'[h] = written[h] + 1]_vars

\* a check run was answered beside a push whose snapshot is in the store
C6_Witness ==
    \E g, h \in Handlers :
        /\ kind[g] = "check_run" /\ kind[h] = "push"
        /\ pc[g] = "done" /\ pc[h] = "done"
        /\ status[g] = StatusOK
        /\ Export(branch[h]) = SixValues(metrics[h])
        /\ metrics[h].SuccessfulDeployments = 1

C8_ChangeFailureRate ==
    (HasMetrics(1) /\ ~TheWorld.err["failureRate"]) =>
        LET Q == WindowRuns(TheWorld, branch[1])
            F == WithConclusion(TheWorld, Q, "failure")
            r == metrics[1].ChangeFailureRate
        IN  /\ r[2] > 0
            /\ r[1] * Cardinality(Q) = Cardinality(F) * r[2]
            /\ 0 <= r[1] /\ r[1] <= r[2]
            /\ (Q = {} => r = Zero)

\* a failed run and a cancelled run in the window: the rate is 1/2
C8_Witness ==
    /\ HasMetrics(1) /\ ~TheWorld.err["failureRate"]
    /\ \E i \in WindowRuns(TheWorld, branch[1]) : TheWorld.runs[i].Conclusion = "cancelled"
    /\ \E i \in WindowRuns(TheWorld, branch[1]) : TheWorld.runs[i].Conclusion = "failure"
    /\ metrics[1].ChangeFailureRate = <<1, 2>>

(***************************************************************************)
(* C9.  A record created more than 30 days before the call contributes to  *)
(* none of the four indicators: the snapshot is the one computed from the  *)
(* history without the runs and the incidents created that long ago.       *)
(* Stated of the histories whose records all carry their timestamps.       *)
(***************************************************************************)
Complete(w) ==
    /\ \A i \in 1..Len(w.runs) :
            w.runs[i].CreatedAt # NilTime /\ w.runs[i].UpdatedAt # NilTime
    /\ \A i \in 1..Len(w.issues) :
            w.issues[i].CreatedAt # NilTime /\ w.issues[i].ClosedAt # NilTime

CreatedLongAgo(p) == p # NilTime /\ p[1] < -(30 * 24)

WithoutOld(w) ==
    LET Keep(x) == ~CreatedLongAgo(x.CreatedAt)
    IN  [w EXCEPT !.runs = SelectSeq(w.runs, Keep), !.issues = SelectSeq(w.issues, Keep)]

C9_OldRecordsContributeNothing ==
    (HasMetrics(1) /\ Complete(TheWorld)) =>
        metrics[1] = calculateDoraMetrics(WithoutOld(TheWorld), branch[1]).metrics

(***************************************************************************)
(* C10.  Lead time and restore time leave out every record that lacks a    *)
(* boundary timestamp: both are what is computed from the history without  *)
(* the runs lacking CreatedAt or UpdatedAt and without the incidents       *)
(* lacking CreatedAt or ClosedAt.  Stated of the histories in which no     *)
(* record was created more than 30 days before the call.                   *)
(***************************************************************************)
Recent(w) ==
    /\ \A i \in 1..Len(w.runs) : ~CreatedLongAgo(w.runs[i].CreatedAt)
    /\ \A i \in 1..Len(w.issues) : ~CreatedLongAgo(w.issues[i].CreatedAt)

WithoutIncomplete(w) ==
    LET KeepRun(r) == r.CreatedAt # NilTime /\ r.UpdatedAt # NilTime
        KeepIssue(i) == i.CreatedAt # NilTime /\ i.ClosedAt # NilTime
    IN  [w EXCEPT !.runs = SelectSeq(w.runs, KeepRun),
                  !.issues = SelectSeq(w.issues, KeepIssue)]

C10_IncompleteRecordsExcluded ==
    (HasMetrics(1) /\ Recent(TheWorld)) =>
        LET c == calculateDoraMetrics(WithoutIncomplete(TheWorld), branch[1]).metrics
        IN  /\ metrics[1].LeadTimeForChanges = c.LeadTimeForChanges
            /\ metrics[1].TimeToRestoreService = c.TimeToRestoreService

============================================================================
